---- MODULE Spec2Model ----
(***************************************************************************)
(* Model of the T24 form automation tool (app.py, core/, processing/).     *)
(*                                                                         *)
(* Four specifications share the module:                                   *)
(*   Spec      AutomatApp.run and the processors it drives                 *)
(*   FairSpec  the same, with the fairness the sequential code gives       *)
(*   MainSpec  main(): the operator dialogue and the start-up guards       *)
(*   LoadSpec  the DataManager loaders, applied to bounded files           *)
(*                                                                         *)
(* The browser, the web application and the operator are the environment:  *)
(* every call into them has its outcomes chosen nondeterministically.      *)
(*                                                                         *)
(* Names the source imports but no file of the repository defines          *)
(* (PipelineProcessor, BatchFormFiller_JAMKRINDO) are carried as           *)
(* unresolved names and raise at the place the code uses them.             *)
(***************************************************************************)
EXTENDS Integers, Sequences, FiniteSets, TLC

VARIABLES
    \* ---- AutomatApp.run ----
    config,     \* AppConfig handed to AutomatApp.__init__
    pc,         \* position inside run() / the running processor
    driver,     \* driver_manager.driver: "none", "open", "closed"
    login,      \* outcome of AuthenticationService.login: "pending", "ok", "failed"
    processor,  \* class of the instantiated processor, "none" before
    filler,     \* class of BatchProcessor.form_filler, "none" otherwise
    branch,     \* which branch of app.py:59-64 ran
    ret,        \* value returned by processor.process()
    results,    \* run()'s results dict
    summary,    \* what _log_summary printed
    exc,        \* the exception caught at app.py:75, "none" otherwise
    log,        \* history of the calls issued against the browser and the log
    i,          \* loop index of the processor's for loop (1-based)
    pres,       \* the processor's own results dict
    valid,      \* valid_extractors of the current table
    available_fields_on_page,
                \* per table, the fields its STANDARD.SELECTION page lists
    \* ---- main ----
    m_pc,       \* position inside main()
    m_mode,     \* mode chosen from the menu, "none" before
    m_browser,  \* browser chosen
    m_version,  \* batch_version chosen, "none" when not asked or invalid
    m_exists,   \* os.path.exists(config_file) as main() saw it
    m_config,   \* the AppConfig main() builds
    m_started,  \* AutomatApp(config).run() was called
    m_exit,     \* why main() returned or died without starting the app
    \* ---- DataManager loaders ----
    file, called, out

runVars  == <<config, pc, driver, login, processor, filler, branch, ret, results,
              summary, exc, log, i, pres, valid, available_fields_on_page>>
mainVars == <<m_pc, m_mode, m_browser, m_version, m_exists, m_config, m_started, m_exit>>
loadVars == <<file, called, out>>
vars     == <<runVars, mainVars, loadVars>>

-----------------------------------------------------------------------------
(* Bounds of the model *)

MaxTables == 2
MaxFields == 2
MaxJobs   == 2
MaxLines  == 4

TableNames == {"ST.A.TEST", "B"}
FieldNames == {"F1", "F2"}

\* sequences without repetition over S, of length at most n
DistinctSeqs(S, n) ==
    UNION { { s \in [1..k -> S] : \A a, b \in 1..k : a # b => s[a] # s[b] } : k \in 0..n }

\* all sequences over S of length at most n
SeqsUpTo(S, n) == UNION { [1..k -> S] : k \in 0..n }

EmptyDict == [k \in {} |-> TRUE]

-----------------------------------------------------------------------------
(* Class and attribute tables of the source *)

\* classes processing/table_processor.py defines
TableProcessorClasses ==
    {"BatchProcessor", "ReportProcessor", "DfeParamProcessor", "DfeMappingProcessor"}

\* batch filler classes core/form_filler.py defines
BatchFillerClasses ==
    {"BatchFormFiller_SBII", "BatchFormFiller_KALSEL", "BatchFormFiller_BJI",
     "BatchFormFiller_JAMBI"}

\* methods of each processor class
ProcessorMethods(cls) ==
    CASE cls = "BatchProcessor"      -> {"process"}
      [] cls = "ReportProcessor"     -> {"_log_unidentified_extractors", "process"}
      [] cls = "DfeParamProcessor"   -> {"process"}
      [] cls = "DfeMappingProcessor" ->
            {"_log_unidentified_extractors", "_switch_to_main_frame", "process"}
      [] OTHER -> {}

\* methods of ReportFormFiller and of DfeMappingFormFiller, which inherits from it
ReportFormFillerMethods ==
    {"reset_extractor_cache", "get_existing_extractors", "fill_mandatory_fields",
     "_fill_field", "fill_dynamic_fields", "_get_last_filled_index", "_fill_field_set",
     "_handle_label_field", "_expand_form", "_handle_dropdown", "_handle_value_field"}

DfeMappingFormFillerMethods ==
    ReportFormFillerMethods \cup
    {"_scan_existing_appl_fields", "fill_mandatory_fields", "_fill_field_set",
     "fill_dynamic_fields", "_expand_form"}

\* number of arguments execute_filling_process takes besides self
ExecuteFillingProcessArity == 0

\* processor_map of AutomatApp.run; "none" is processor_map.get's None
processor_map(mode) ==
    CASE mode = "batch"     -> "BatchProcessor"
      [] mode = "report"    -> "ReportProcessor"
      [] mode = "parameter" -> "DfeParamProcessor"
      [] mode = "mapping"   -> "DfeMappingProcessor"
      [] mode = "pipeline"  -> "PipelineProcessor"
      [] OTHER -> "none"

\* filler_map of BatchProcessor.__init__; "none" is filler_map.get's None
filler_map(version) ==
    CASE version = "sbii"      -> "BatchFormFiller_SBII"
      [] version = "bji"       -> "BatchFormFiller_BJI"
      [] version = "kalsel"    -> "BatchFormFiller_KALSEL"
      [] version = "jamkrindo" -> "BatchFormFiller_JAMKRINDO"
      [] version = "jambi"     -> "BatchFormFiller_JAMBI"
      [] OTHER -> "none"

\* str.upper on the mode names
Upper(mode) ==
    CASE mode = "batch"     -> "BATCH"
      [] mode = "report"    -> "REPORT"
      [] mode = "parameter" -> "PARAMETER"
      [] mode = "mapping"   -> "MAPPING"
      [] mode = "pipeline"  -> "PIPELINE"
      [] OTHER -> "OTHER"

\* the prefix/suffix stripping of validate_extractors_for_table on the table names used
CleanTableName(t) ==
    CASE t = "ST.A.TEST" -> "A"
      [] OTHER -> t

-----------------------------------------------------------------------------
(* The configurations run() is started with *)

Modes    == {"batch", "report", "parameter", "mapping", "pipeline", "other"}
Versions == {"sbii", "bji", "kalsel", "jamkrindo", "jambi", "None", "unknown"}

BatchJobs ==
    { <<"BATCH, A", <<"ST.A.TEST">>>>, <<"BATCH, B", <<"B", "ST.A.TEST">>>> }

ExtractorLists == DistinctSeqs(FieldNames, MaxFields)

Cfg(mode, commit, version, jobs, tables, extractors) ==
    [mode |-> mode, commit_enabled |-> commit, batch_version |-> version,
     batch_jobs |-> jobs, tables |-> tables, extractors |-> extractors]

NoExtractors == [t \in TableNames |-> <<>>]

\* what the STANDARD.SELECTION page of each table can list
Pages  == [TableNames -> SUBSET FieldNames]
NoPage == [t \in TableNames |-> {}]

Configs ==
    { Cfg("batch", c, v, j, <<>>, NoExtractors) :
        c \in BOOLEAN, v \in Versions, j \in DistinctSeqs(BatchJobs, MaxJobs) }
    \cup
    { Cfg(m, c, "None", <<>>, t, e) :
        m \in {"report", "mapping"}, c \in BOOLEAN,
        t \in DistinctSeqs(TableNames, MaxTables),
        e \in [TableNames -> ExtractorLists] }
    \cup
    { Cfg("parameter", c, "None", <<>>, t, NoExtractors) :
        c \in BOOLEAN, t \in SeqsUpTo(TableNames, MaxTables) }
    \cup
    { Cfg(m, c, v, <<>>, <<>>, NoExtractors) :
        m \in {"pipeline", "other"}, c \in BOOLEAN, v \in {"None", "sbii", "jambi"} }

-----------------------------------------------------------------------------
(* History of calls *)

Event(op, cmd, tbl, flds, ok) ==
    [op |-> op, cmd |-> cmd, tbl |-> tbl, flds |-> flds, ok |-> ok]

Logged(e) == log' = Append(log, e)

\* operations that act on the web application's command line or forms
FormOps == {"command", "wait_form", "switch_frame", "fill", "fill_mandatory",
            "fill_dynamic", "fill_form", "commit", "input_transaction"}

BoolRet(b) == [kind |-> "bool", b |-> b, d |-> EmptyDict]
DictRet(d) == [kind |-> "dict", b |-> FALSE, d |-> d]
NoRet      == [kind |-> "unset", b |-> FALSE, d |-> EmptyDict]

\* dict[key] = value
Put(d, k, v) == [x \in DOMAIN d \cup {k} |-> IF x = k THEN v ELSE d[x]]

\* an exception propagates out of the try block of run()
Raise(e) == /\ exc' = e
            /\ pc' = "except"

\* process() returns r to run()
Return(r) == /\ ret' = r
             /\ pc' = "record"

\* the AppConfig of main() before from_config_file has run
NoConfig ==
    [loaded |-> FALSE, mode |-> "none", password |-> "", commit_enabled |-> FALSE,
     datafile |-> [exists |-> FALSE, lines |-> <<>>], tables |-> <<>>,
     extractors |-> EmptyDict, batch_jobs |-> <<>>]

InitMainAt(at) ==
    /\ m_pc = at /\ m_mode = "none" /\ m_browser = "none" /\ m_version = "none"
    /\ m_exists = FALSE /\ m_config = NoConfig /\ m_started = FALSE
    /\ m_exit = "none"

InitMain == InitMainAt("idle")

\* a path at which no file exists
MissingFile == [exists |-> FALSE, lines |-> <<>>]

InitLoad == /\ file = MissingFile /\ called = "none" /\ out = <<>>

Init ==
    /\ config \in Configs
    /\ pc = "start"
    /\ driver = "none"
    /\ login = "pending"
    /\ processor = "none"
    /\ filler = "none"
    /\ branch = "none"
    /\ ret = NoRet
    /\ results = EmptyDict
    /\ summary = [logged |-> FALSE, total |-> 0, success |-> 0, failed |-> 0]
    /\ exc = "none"
    /\ log = <<>>
    /\ i = 1
    /\ pres = EmptyDict
    /\ valid = <<>>
    /\ available_fields_on_page \in
          IF config.mode \in {"report", "mapping"} THEN Pages ELSE {NoPage}
    /\ InitMain
    /\ InitLoad

-----------------------------------------------------------------------------
(* AutomatApp.run *)

\* WebDriverManager.initialize: the browser may fail to start, or start and then
\* fail while sizing the window or loading the URL
Initialize ==
    /\ pc = "start"
    /\ \E o \in {"ok", "no_driver", "driver_then_raise"} :
        /\ driver' = IF o = "no_driver" THEN "none" ELSE "open"
        /\ pc' = IF o = "ok" THEN "login" ELSE "except"
        /\ exc' = IF o = "ok" THEN exc ELSE "WebDriverException"
    /\ UNCHANGED <<config, login, processor, filler, branch, ret, results, summary,
                   log, i, pres, valid>>
    /\ UNCHANGED <<available_fields_on_page, mainVars, loadVars>>

LoginIgnoringResult ==
    /\ pc = "login"
    /\ \E ok \in BOOLEAN :
        /\ login' = IF ok THEN "ok" ELSE "failed"
        /\ Logged(Event("login", <<>>, "", <<>>, ok))
    /\ pc' = "resolve"
    /\ UNCHANGED <<config, driver, processor, filler, branch, ret, results, summary,
                   exc, i, pres, valid>>
    /\ UNCHANGED <<available_fields_on_page, mainVars, loadVars>>

\* AuthenticationService.login and the check of its result
Login ==
    /\ pc = "login"
    /\ \E ok \in BOOLEAN :
        /\ login' = IF ok THEN "ok" ELSE "failed"
        /\ Logged(Event("login", <<>>, "", <<>>, ok))
        /\ pc' = IF ok THEN "resolve" ELSE "except"
        /\ exc' = IF ok THEN exc ELSE "Login aborted."
    /\ UNCHANGED <<config, driver, processor, filler, branch, ret, results, summary,
                   i, pres, valid>>
    /\ UNCHANGED <<available_fields_on_page, mainVars, loadVars>>

\* processor_map.get(self.config.mode)
Resolve ==
    /\ pc = "resolve"
    /\ IF processor_map(config.mode) = "none"
         THEN /\ Logged(Event("unknown_mode", <<>>, "", <<>>, FALSE))
              /\ pc' = "finally"
         ELSE /\ pc' = "instantiate"
              /\ UNCHANGED log
    /\ UNCHANGED <<config, driver, login, processor, filler, branch, ret, results,
                   summary, exc, i, pres, valid>>
    /\ UNCHANGED <<available_fields_on_page, mainVars, loadVars>>

\* processor_class(driver, wait, self.config): the four constructors
Instantiate ==
    /\ pc = "instantiate"
    /\ LET cls == processor_map(config.mode)
           f   == filler_map(config.batch_version)
       IN  \E opened \in BOOLEAN :
             LET err ==
                   IF cls \notin TableProcessorClasses THEN "NameError"
                   ELSE IF cls = "BatchProcessor" /\ f = "none" THEN "ValueError"
                   ELSE IF cls = "BatchProcessor" /\ f \notin BatchFillerClasses
                        THEN "NameError"
                   ELSE IF cls \in {"ReportProcessor", "DfeMappingProcessor"} /\ ~opened
                        THEN "OSError"
                   ELSE "none"
             IN  /\ exc' = IF err = "none" THEN exc ELSE err
                 /\ pc' = IF err = "none" THEN "choose" ELSE "except"
                 /\ processor' = IF err = "none" THEN cls ELSE processor
                 /\ filler' = IF err = "none" /\ cls = "BatchProcessor" THEN f ELSE filler
    /\ UNCHANGED <<config, driver, login, branch, ret, results, summary, log, i, pres,
                   valid>>
    /\ UNCHANGED <<available_fields_on_page, mainVars, loadVars>>

\* first position of each processor's process()
Entry(cls) ==
    CASE cls = "BatchProcessor"      -> "bat_start"
      [] cls = "ReportProcessor"     -> "rep_iter"
      [] cls = "DfeParamProcessor"   -> "par_iter"
      [] cls = "DfeMappingProcessor" -> "map_start"

\* the choice between process_with_commit() and process()
ChooseProcess ==
    /\ pc = "choose"
    /\ IF config.commit_enabled /\ "process_with_commit" \in ProcessorMethods(processor)
         THEN /\ branch' = "with_commit"
              /\ pc' = "process_with_commit"
         ELSE /\ branch' = "without_commit"
              /\ pc' = Entry(processor)
    /\ i' = 1
    /\ pres' = EmptyDict
    /\ UNCHANGED <<config, driver, login, processor, filler, ret, results, summary,
                   exc, log, valid>>
    /\ UNCHANGED <<available_fields_on_page, mainVars, loadVars>>

AnyValue(r) ==
    IF r.kind = "bool" THEN r.b
    ELSE IF r.kind = "dict" THEN \E k \in DOMAIN r.d : r.d[k]
    ELSE FALSE

\* the task outcome run() derives from what process() returned
TaskValue(r) ==
    IF r.kind = "bool" THEN r.b
    ELSE IF r.kind = "dict" /\ DOMAIN r.d # {} THEN \A k \in DOMAIN r.d : r.d[k]
    ELSE FALSE

\* results[key] = ...
Record ==
    /\ pc = "record"
    /\ results' = Put(results, Upper(config.mode), TaskValue(ret))
    /\ pc' = "finally"
    /\ UNCHANGED <<config, driver, login, processor, filler, branch, ret, summary,
                   exc, log, i, pres, valid>>
    /\ UNCHANGED <<available_fields_on_page, mainVars, loadVars>>

ExceptSkippingSummary ==
    /\ pc = "except"
    /\ Logged(Event("fatal", <<>>, exc, <<>>, driver = "open"))
    /\ pc' = "quit"
    /\ UNCHANGED <<config, driver, login, processor, filler, branch, ret, results,
                   summary, exc, i, pres, valid>>
    /\ UNCHANGED <<available_fields_on_page, mainVars, loadVars>>

\* the except block: log the error, screenshot when a driver exists
Except ==
    /\ pc = "except"
    /\ Logged(Event("fatal", <<>>, exc, <<>>, driver = "open"))
    /\ pc' = "finally"
    /\ UNCHANGED <<config, driver, login, processor, filler, branch, ret, results,
                   summary, exc, i, pres, valid>>
    /\ UNCHANGED <<available_fields_on_page, mainVars, loadVars>>

\* _log_summary(results, start_time)
LogSummary ==
    /\ pc = "finally"
    /\ LET success_count == Cardinality({k \in DOMAIN results : results[k]})
           failure_count == Cardinality(DOMAIN results) - success_count
       IN  summary' = [logged |-> TRUE, total |-> Cardinality(DOMAIN results),
                       success |-> success_count, failed |-> failure_count]
    /\ Logged(Event("summary", <<>>, "", <<>>, TRUE))
    /\ pc' = "await_enter"
    /\ UNCHANGED <<config, driver, login, processor, filler, branch, ret, results,
                   exc, i, pres, valid>>
    /\ UNCHANGED <<available_fields_on_page, mainVars, loadVars>>

\* input("Press ENTER to close browser...") returns
PressEnter ==
    /\ pc = "await_enter"
    /\ pc' = "quit"
    /\ UNCHANGED <<config, driver, login, processor, filler, branch, ret, results,
                   summary, exc, log, i, pres, valid>>
    /\ UNCHANGED <<available_fields_on_page, mainVars, loadVars>>

\* WebDriverManager.quit
Quit ==
    /\ pc = "quit"
    /\ IF driver = "open"
         THEN /\ driver' = "closed"
              /\ Logged(Event("quit", <<>>, "", <<>>, TRUE))
         ELSE UNCHANGED <<driver, log>>
    /\ pc' = "done"
    /\ UNCHANGED <<config, login, processor, filler, branch, ret, results, summary,
                   exc, i, pres, valid>>
    /\ UNCHANGED <<available_fields_on_page, mainVars, loadVars>>

-----------------------------------------------------------------------------
(* BatchProcessor.process *)

runFrame == <<config, driver, login, processor, filler, branch, results, summary>>

\* no jobs: return True; otherwise issue the first job's command
BatchStart ==
    /\ pc = "bat_start"
    /\ IF config.batch_jobs = <<>>
         THEN /\ Return(BoolRet(TRUE))
              /\ UNCHANGED log
         ELSE \E ok \in BOOLEAN :
                /\ Logged(Event("command", <<config.batch_jobs[1][1]>>, "", <<>>, ok))
                /\ IF ok THEN pc' = "bat_wait" /\ UNCHANGED ret
                         ELSE Return(BoolRet(FALSE))
    /\ UNCHANGED <<runFrame, exc, i, pres, valid>>
    /\ UNCHANGED <<available_fields_on_page, mainVars, loadVars>>

\* wait for fieldName:JOB.NAME:1, else for contract_screen_div (unguarded)
BatchWait ==
    /\ pc = "bat_wait"
    /\ \E o \in {"ready", "fallback", "timeout"} :
        /\ Logged(Event("wait_form", <<>>, o, <<>>, o # "timeout"))
        /\ pc' = IF o = "timeout" THEN "except" ELSE "bat_fill"
        /\ exc' = IF o = "timeout" THEN "TimeoutException" ELSE exc
    /\ UNCHANGED <<runFrame, ret, i, pres, valid>>
    /\ UNCHANGED <<available_fields_on_page, mainVars, loadVars>>

\* success = self.form_filler.execute_filling_process(tables); return success
BatchFill ==
    /\ pc = "bat_fill"
    /\ LET tables == config.batch_jobs[1][2]
           args   == <<tables>>
       IN  IF Len(args) # ExecuteFillingProcessArity
             THEN /\ Raise("TypeError")
                  /\ UNCHANGED <<log, ret>>
             ELSE \E success \in BOOLEAN :
                    /\ Logged(Event("fill", <<>>, "", tables, success))
                    /\ Return(BoolRet(success))
                    /\ UNCHANGED exc
    /\ UNCHANGED <<runFrame, i, pres, valid>>
    /\ UNCHANGED <<available_fields_on_page, mainVars, loadVars>>

-----------------------------------------------------------------------------
(* ExtractorValidator.validate_extractors_for_table *)

\* valid_extractors: empty when the SS command fails, else the required fields the
\* STANDARD.SELECTION page lists, in the order required
ValidExtractors(required, ok, available) ==
    IF ok THEN SelectSeq(required, LAMBDA f : f \in available) ELSE <<>>

-----------------------------------------------------------------------------
(* ReportProcessor.process *)

\* loop head and validation step of one table
ReportIter ==
    /\ pc = "rep_iter"
    /\ IF i > Len(config.tables)
         THEN /\ Return(DictRet(pres))
              /\ UNCHANGED <<log, i, pres, valid>>
         ELSE LET table_name == config.tables[i]
                  required   == config.extractors[table_name]
              IN  IF required = <<>>
                    THEN /\ valid' = <<>>
                         /\ pc' = "rep_command"
                         /\ UNCHANGED <<log, i, pres, ret>>
                    ELSE \E ok \in BOOLEAN :
                           LET v == ValidExtractors(required, ok,
                                        available_fields_on_page[table_name])
                           IN  /\ Logged(Event("command",
                                               <<"SS, S", CleanTableName(table_name)>>,
                                               table_name, <<>>, ok))
                               /\ valid' = v
                               /\ UNCHANGED ret
                               /\ IF v = <<>>
                                    THEN /\ pres' = Put(pres, table_name, FALSE)
                                         /\ i' = i + 1
                                         /\ pc' = "rep_iter"
                                    ELSE /\ pc' = "rep_command"
                                         /\ UNCHANGED <<i, pres>>
    /\ UNCHANGED <<runFrame, exc>>
    /\ UNCHANGED <<available_fields_on_page, mainVars, loadVars>>

ReportStepGoingOn(at, op, cmd, flds, next) ==
    /\ pc = at
    /\ \E ok \in BOOLEAN :
        /\ Logged(Event(op, cmd, config.tables[i], flds, ok))
        /\ pc' = next
        /\ IF ok THEN UNCHANGED pres
                 ELSE pres' = Put(pres, config.tables[i], FALSE)
    /\ UNCHANGED <<runFrame, exc, ret, valid, i>>
    /\ UNCHANGED <<available_fields_on_page, mainVars, loadVars>>

\* one step of the loop body on the current table: the call is logged; on failure the
\* table is recorded False and the loop continues, on success the loop body goes on
ReportStep(at, op, cmd, flds, next) ==
    /\ pc = at
    /\ \E ok \in BOOLEAN :
        /\ Logged(Event(op, cmd, config.tables[i], flds, ok))
        /\ IF ok
             THEN /\ pc' = next
                  /\ UNCHANGED <<i, pres>>
             ELSE /\ pres' = Put(pres, config.tables[i], FALSE)
                  /\ i' = i + 1
                  /\ pc' = "rep_iter"
    /\ UNCHANGED <<runFrame, exc, ret, valid>>
    /\ UNCHANGED <<available_fields_on_page, mainVars, loadVars>>

\* execute_command("EXT.REPORT,INP <table>")
ReportCommand ==
    ReportStep("rep_command", "command", <<"EXT.REPORT,INP", config.tables[i]>>, <<>>,
               "rep_mandatory")

\* fill_mandatory_fields(table_name); the dynamic fill is skipped without valid extractors
ReportMandatory ==
    ReportStep("rep_mandatory", "fill_mandatory", <<>>, <<>>,
               IF valid # <<>> THEN "rep_dynamic" ELSE "rep_commit")

\* fill_dynamic_fields(valid_extractors)
ReportDynamic ==
    ReportStep("rep_dynamic", "fill_dynamic", <<>>, valid, "rep_commit")

\* execute_commit(), results[table_name] = True, next table
ReportCommit ==
    /\ pc = "rep_commit"
    /\ \E ok \in BOOLEAN :
        /\ Logged(Event("commit", <<>>, config.tables[i], <<>>, ok))
        /\ pres' = Put(pres, config.tables[i], ok)
    /\ i' = i + 1
    /\ pc' = "rep_iter"
    /\ UNCHANGED <<runFrame, exc, ret, valid>>
    /\ UNCHANGED <<available_fields_on_page, mainVars, loadVars>>

-----------------------------------------------------------------------------
(* DfeParamProcessor.process *)

\* loop head; the command is issued for the first table only and its failure breaks
ParamIter ==
    /\ pc = "par_iter"
    /\ IF i > Len(config.tables)
         THEN /\ Return(DictRet(pres))
              /\ UNCHANGED <<log, pres>>
         ELSE IF i = 1
           THEN \E ok \in BOOLEAN :
                  /\ Logged(Event("command", <<"DFE.PARAMETER,", config.tables[i]>>,
                                  config.tables[i], <<>>, ok))
                  /\ IF ok
                       THEN /\ pc' = "par_fill"
                            /\ UNCHANGED <<ret, pres>>
                       ELSE /\ pres' = Put(pres, config.tables[i], FALSE)
                            /\ Return(DictRet(pres'))
           ELSE /\ pc' = "par_fill"
                /\ UNCHANGED <<log, ret, pres>>
    /\ UNCHANGED <<runFrame, exc, i, valid>>
    /\ UNCHANGED <<available_fields_on_page, mainVars, loadVars>>

\* fill_form(table_name); failure continues with the next table
ParamFill ==
    /\ pc = "par_fill"
    /\ \E ok \in BOOLEAN :
        /\ Logged(Event("fill_form", <<>>, config.tables[i], <<>>, ok))
        /\ IF ok
             THEN /\ pc' = "par_commit"
                  /\ UNCHANGED <<i, pres>>
             ELSE /\ pres' = Put(pres, config.tables[i], FALSE)
                  /\ i' = i + 1
                  /\ pc' = "par_iter"
    /\ UNCHANGED <<runFrame, exc, ret, valid>>
    /\ UNCHANGED <<available_fields_on_page, mainVars, loadVars>>

\* execute_commit(); failure breaks the loop
ParamCommit ==
    /\ pc = "par_commit"
    /\ \E ok \in BOOLEAN :
        /\ Logged(Event("commit", <<>>, config.tables[i], <<>>, ok))
        /\ pres' = Put(pres, config.tables[i], ok)
        /\ IF ~ok
             THEN /\ Return(DictRet(pres'))
                  /\ UNCHANGED i
             ELSE IF i < Len(config.tables)
               THEN /\ pc' = "par_next"
                    /\ UNCHANGED <<i, ret>>
               ELSE /\ i' = i + 1
                    /\ pc' = "par_iter"
                    /\ UNCHANGED ret
    /\ UNCHANGED <<runFrame, exc, valid>>
    /\ UNCHANGED <<available_fields_on_page, mainVars, loadVars>>

\* input_transaction(next_table); failure breaks the loop
ParamNext ==
    /\ pc = "par_next"
    /\ \E ok \in BOOLEAN :
        /\ Logged(Event("input_transaction", <<>>, config.tables[i + 1], <<>>, ok))
        /\ IF ok
             THEN /\ i' = i + 1
                  /\ pc' = "par_iter"
                  /\ UNCHANGED ret
             ELSE /\ Return(DictRet(pres))
                  /\ UNCHANGED i
    /\ UNCHANGED <<runFrame, exc, pres, valid>>
    /\ UNCHANGED <<available_fields_on_page, mainVars, loadVars>>

-----------------------------------------------------------------------------
(* DfeMappingProcessor.process *)

\* no tables: return {}; otherwise self.form_filler.reset_cache(), which
\* DfeMappingFormFiller does not have
MappingStart ==
    /\ pc = "map_start"
    /\ IF config.tables = <<>>
         THEN /\ Return(DictRet(EmptyDict))
              /\ UNCHANGED exc
         ELSE IF "reset_cache" \notin DfeMappingFormFillerMethods
           THEN /\ Raise("AttributeError")
                /\ UNCHANGED ret
           ELSE /\ pc' = "map_validate"
                /\ UNCHANGED <<ret, exc>>
    /\ UNCHANGED <<runFrame, log, i, pres, valid>>
    /\ UNCHANGED <<available_fields_on_page, mainVars, loadVars>>

-----------------------------------------------------------------------------

Next ==
    \/ Initialize \/ Login \/ Resolve \/ Instantiate \/ ChooseProcess
    \/ BatchStart \/ BatchWait \/ BatchFill
    \/ ReportIter \/ ReportCommand \/ ReportMandatory \/ ReportDynamic \/ ReportCommit
    \/ ParamIter \/ ParamFill \/ ParamCommit \/ ParamNext
    \/ MappingStart
    \/ Record \/ Except \/ LogSummary \/ PressEnter \/ Quit

Spec == Init /\ [][Next]_vars

\* run() is sequential code: each step that can be taken is taken, the calls into the
\* browser time out, and the operator answers the prompt
FairSpec == Spec /\ WF_vars(Next)

-----------------------------------------------------------------------------
(* Properties of AutomatApp.run *)

FormEvents == {k \in DOMAIN log : log[k].op \in FormOps}

\* C1: login precedes processing. A processor exists, and a banner command, form fill
\* or commit has been issued, only after login() returned True; after a failed login
\* the run has no processor and issues none of them.
C1_LoginPrecedesProcessing ==
    /\ (processor # "none" \/ branch # "none" \/ FormEvents # {}) => login = "ok"
    /\ \A k \in FormEvents : \E j \in 1..(k - 1) : log[j].op = "login" /\ log[j].ok
    /\ login = "failed" => (processor = "none" /\ FormEvents = {} /\ ret = NoRet)

C1_Witness ==
    /\ login = "ok"
    /\ processor # "none"
    /\ \E k \in FormEvents : log[k].op = "commit"

\* C2: with commit mode disabled no run executes CommitHandler.execute_commit.
C2_NoCommitWhenDisabled ==
    ~config.commit_enabled => \A k \in DOMAIN log : log[k].op # "commit"

\* C3: with commit mode enabled the run takes the WITH COMMIT branch, and every
\* transaction reported successful was committed before.
C3_CommitModeRunsWithCommit ==
    config.commit_enabled =>
        /\ branch # "none" => branch = "with_commit"
        /\ \A t \in DOMAIN pres :
              pres[t] => \E k \in DOMAIN log :
                            log[k].op = "commit" /\ log[k].tbl = t /\ log[k].ok
        /\ (ret.kind = "bool" /\ ret.b /\ config.batch_jobs # <<>>) =>
              \E k \in DOMAIN log : log[k].op = "commit" /\ log[k].ok

SummaryEvents == {k \in DOMAIN log : log[k].op = "summary"}
QuitEvents    == {k \in DOMAIN log : log[k].op = "quit"}

MenuModes == {"batch", "report", "parameter", "mapping", "pipeline"}

Instantiated == pc \notin {"start", "login", "resolve", "instantiate"} /\ login = "ok"

\* C5: each of the five menu modes resolves to a class processing.table_processor
\* defines; only another mode logs "Unknown mode", runs no processor and records
\* no result.
C5_MenuModesResolve ==
    /\ (config.mode \in MenuModes /\ pc = "instantiate") =>
            processor_map(config.mode) \in TableProcessorClasses
    /\ (config.mode \in MenuModes /\ Instantiated) => exc # "NameError" \/ config.mode = "batch"
    /\ (config.mode \notin MenuModes /\ Instantiated) =>
            /\ \E k \in DOMAIN log : log[k].op = "unknown_mode"
            /\ processor = "none"
            /\ results = EmptyDict
    /\ (\E k \in DOMAIN log : log[k].op = "unknown_mode") => config.mode \notin MenuModes

\* the deployment variants the operator can select
BatchVersions == {"sbii", "bji", "kalsel", "jamkrindo", "jambi"}

\* C6: for each of the five variants BatchProcessor's construction selects a filler
\* class that exists, distinct variants get distinct fillers, and any other
\* batch_version raises ValueError before any command or form action.
C6_VariantsSelectOwnFiller ==
    /\ (config.mode = "batch" /\ config.batch_version \in BatchVersions /\ Instantiated) =>
            /\ filler \in BatchFillerClasses
            /\ filler = filler_map(config.batch_version)
    /\ \A v, w \in BatchVersions : v # w => filler_map(v) # filler_map(w)
    /\ (config.mode = "batch" /\ config.batch_version \notin BatchVersions /\ Instantiated) =>
            /\ exc = "ValueError"
            /\ FormEvents = {}

\* a result that counts as a success: True, or a non-empty dict of True values
Successful(r) ==
    \/ r.kind = "bool" /\ r.b
    \/ r.kind = "dict" /\ DOMAIN r.d # {} /\ \A t \in DOMAIN r.d : r.d[t]

-----------------------------------------------------------------------------
(* Properties of the processors *)

\* process() was entered and has returned or raised
ProcessOver == branch # "none" /\ (ret.kind # "unset" \/ exc # "none")

\* the fields table t lists as required
Required(t) == {config.extractors[t][k] : k \in 1..Len(config.extractors[t])}

\* t lists required extractors and its STANDARD.SELECTION page has none of them
NoneFound(t) ==
    /\ Required(t) # {}
    /\ Required(t) \cap available_fields_on_page[t] = {}

\* the calls that open, fill or commit the form of table t
FormCalls(t) ==
    {k \in DOMAIN log :
        /\ log[k].tbl = t
        /\ \/ log[k].op \in {"switch_frame", "fill_mandatory", "fill_dynamic", "commit"}
           \/ log[k].op = "command" /\ log[k].cmd[1] \in {"EXT.REPORT,INP", "DFE.MAPPING,"}}

\* the tables the validating processor is through with: the tables before the loop
\* index in ReportProcessor, tables[0] once DfeMappingProcessor.process is over
Handled ==
    IF branch = "none" THEN {}
    ELSE IF config.mode = "report"
      THEN {config.tables[k] : k \in 1..(i - 1)}
    ELSE IF config.mode = "mapping" /\ ProcessOver /\ config.tables # <<>>
      THEN {config.tables[1]}
    ELSE {}

\* C11: in ReportProcessor.process and in DfeMappingProcessor.process alike, a table
\* with required extractors of which the STANDARD.SELECTION page has none is recorded
\* False and no call opens, fills or commits its form; the dynamic-field filler is
\* handed only fields that are required and on the page.
C11_InvalidExtractorsNeverWritten ==
    /\ \A t \in Handled : NoneFound(t) => (t \in DOMAIN pres /\ ~pres[t])
    /\ \A t \in TableNames :
          (config.mode \in {"report", "mapping"} /\ NoneFound(t)) => FormCalls(t) = {}
    /\ \A k \in DOMAIN log :
          log[k].op = "fill_dynamic" =>
              \A n \in 1..Len(log[k].flds) :
                  log[k].flds[n] \in Required(log[k].tbl)
                                       \cap available_fields_on_page[log[k].tbl]

CommandEvents == {k \in DOMAIN log : log[k].op = "command"}
FillEvents    == {k \in DOMAIN log : log[k].op = "fill"}
FormReady     == \E k \in DOMAIN log : log[k].op = "wait_form" /\ log[k].ok

\* C12: BatchProcessor.process handles the first loaded job only. Without jobs it
\* returns True and touches no form; otherwise the one command it issues is the first
\* job's, a failed command makes it return False without a fill, and once the form is
\* ready the filler writes exactly the first job's tables and process returns the
\* filler's success value.
C12_BatchHandlesFirstJob ==
    (config.mode = "batch" /\ ProcessOver) =>
        /\ config.batch_jobs = <<>> => (ret = BoolRet(TRUE) /\ FormEvents = {})
        /\ \A k \in CommandEvents : log[k].cmd = <<config.batch_jobs[1][1]>>
        /\ Cardinality(CommandEvents) <= 1
        /\ (\E k \in CommandEvents : ~log[k].ok) =>
                (ret = BoolRet(FALSE) /\ FillEvents = {})
        /\ \A k \in FillEvents : log[k].flds = config.batch_jobs[1][2]
        /\ FormReady =>
                \E k \in FillEvents : ret = BoolRet(log[k].ok)

\* C13: DfeMappingProcessor.process always returns a dict: the empty dict when no
\* table is configured, otherwise one with exactly one entry, for tables[0]; that
\* entry is True when the table lists no extractor or has a valid one and no call on
\* its form failed.
C13_MappingReturnsOneEntry ==
    (config.mode = "mapping" /\ ProcessOver) =>
        /\ exc = "none"
        /\ ret.kind = "dict"
        /\ config.tables = <<>> => ret.d = EmptyDict
        /\ config.tables # <<>> =>
              /\ DOMAIN ret.d = {config.tables[1]}
              /\ ( /\ ~NoneFound(config.tables[1])
                   /\ \A k \in FormEvents : log[k].ok ) => ret.d[config.tables[1]]

\* the calls ReportProcessor.process made for table t, in the order made
TableEvents(t) == SelectSeq(log, LAMBDA e : e.tbl = t)

\* the step of the loop body a call belongs to
StepName(e) ==
    IF e.op = "command"
      THEN IF e.cmd[1] = "SS, S" THEN "validate" ELSE "EXT.REPORT,INP"
      ELSE e.op

\* the steps the loop body has for table t, in order: validation when extractors are
\* listed, the dynamic fill when some of them are valid
Applicable(t) ==
    (IF Required(t) # {} THEN <<"validate">> ELSE <<>>)
    \o <<"EXT.REPORT,INP", "fill_mandatory">>
    \o (IF Required(t) \cap available_fields_on_page[t] # {}
          THEN <<"fill_dynamic">> ELSE <<>>)
    \o <<"commit">>

\* the step succeeded; validation succeeds when it finds a valid extractor
Succeeded(e) ==
    /\ e.ok
    /\ StepName(e) = "validate" =>
            Required(e.tbl) \cap available_fields_on_page[e.tbl] # {}

ReportEntered == config.mode = "report" /\ branch # "none"

ReportStepsInOrder ==
    ReportEntered =>
        /\ DOMAIN pres = Handled
        /\ \A t \in TableNames :
            LET ev == TableEvents(t)
                ap == Applicable(t)
            IN  /\ Len(ev) <= Len(ap)
                /\ \A n \in 1..Len(ev) :
                      /\ StepName(ev[n]) = ap[n]
                      /\ n < Len(ev) => Succeeded(ev[n])
                      /\ StepName(ev[n]) = "EXT.REPORT,INP" => ev[n].cmd[2] = t
                /\ t \in DOMAIN pres =>
                      /\ pres[t] <=> ( /\ Len(ev) = Len(ap)
                                       /\ \A n \in 1..Len(ev) : Succeeded(ev[n]) )
                      /\ ~pres[t] => ( /\ Len(ev) >= 1
                                       /\ ~Succeeded(ev[Len(ev)]) )
        /\ ret.kind # "unset" =>
              /\ ret = DictRet(pres)
              /\ DOMAIN ret.d = {config.tables[k] : k \in 1..Len(config.tables)}

-----------------------------------------------------------------------------
(* Text: a line is a sequence of one-character strings *)

\* str.lstrip / str.rstrip / str.strip
RECURSIVE LStrip(_)
LStrip(s) == IF s # <<>> /\ Head(s) = " " THEN LStrip(Tail(s)) ELSE s

RECURSIVE RStrip(_)
RStrip(s) == IF s # <<>> /\ s[Len(s)] = " " THEN RStrip(SubSeq(s, 1, Len(s) - 1)) ELSE s

Strip(s) == RStrip(LStrip(s))

\* str.startswith / str.endswith with a one-character argument
StartsWith(s, c) == s # <<>> /\ s[1] = c
EndsWith(s, c)   == s # <<>> /\ s[Len(s)] = c

\* s[1:-1]
Inner(s) == SubSeq(s, 2, Len(s) - 1)

\* the lines the bounded files are made of
Lines ==
    { <<" ">>,
      <<";", "x">>,
      <<"#", "x">>,
      <<"[", "A", "]">>,
      <<" ", "[", " ", "A", " ", "]", " ">>,
      <<"[", "B", "]">>,
      <<"[", " ", "]">>,
      <<"x">>,
      <<"[", "x">>,
      <<" ", "y", " ">> }

Files ==
    {MissingFile} \cup { [exists |-> TRUE, lines |-> l] : l \in SeqsUpTo(Lines, MaxLines) }

-----------------------------------------------------------------------------
(* DataManager *)

DataManagerMethods ==
    {"load_batch_tables", "load_extractor_data", "load_dfe_params_data",
     "load_dfe_map_data"}

\* the loop body of load_batch_tables; has_cmd is "current_command is not None"
BatchLineKeepingTables(st, line) ==
    LET stripped_line == Strip(line)
    IN  IF stripped_line = <<>> \/ StartsWith(stripped_line, ";") THEN st
        ELSE IF StartsWith(stripped_line, "[") /\ EndsWith(stripped_line, "]")
          THEN [jobs    |-> IF st.has_cmd /\ st.cmd # <<>> /\ st.tables # <<>>
                              THEN Append(st.jobs, <<st.cmd, st.tables>>)
                              ELSE st.jobs,
                has_cmd |-> TRUE,
                cmd     |-> Strip(Inner(stripped_line)),
                tables  |-> st.tables]
        ELSE IF st.has_cmd THEN [st EXCEPT !.tables = Append(@, stripped_line)]
        ELSE st

BatchLine(st, line) ==
    LET stripped_line == Strip(line)
    IN  IF stripped_line = <<>> \/ StartsWith(stripped_line, ";") THEN st
        ELSE IF StartsWith(stripped_line, "[") /\ EndsWith(stripped_line, "]")
          THEN [jobs    |-> IF st.has_cmd /\ st.cmd # <<>> /\ st.tables # <<>>
                              THEN Append(st.jobs, <<st.cmd, st.tables>>)
                              ELSE st.jobs,
                has_cmd |-> TRUE,
                cmd     |-> Strip(Inner(stripped_line)),
                tables  |-> <<>>]
        ELSE IF st.has_cmd THEN [st EXCEPT !.tables = Append(@, stripped_line)]
        ELSE st

RECURSIVE BatchLoop(_, _, _)
BatchLoop(st, lines, k) ==
    IF k > Len(lines) THEN st ELSE BatchLoop(BatchLine(st, lines[k]), lines, k + 1)

load_batch_tables(f) ==
    IF ~f.exists THEN <<>>
    ELSE LET st == BatchLoop([jobs |-> <<>>, has_cmd |-> FALSE, cmd |-> <<>>,
                              tables |-> <<>>], f.lines, 1)
         IN  IF st.has_cmd /\ st.cmd # <<>> /\ st.tables # <<>>
               THEN Append(st.jobs, <<st.cmd, st.tables>>)
               ELSE st.jobs

\* the loop body of load_extractor_data; has is "current_table is not None"
ExtractorLineNewEntryEachHeader(st, l) ==
    LET line == Strip(l)
    IN  IF line = <<>> \/ StartsWith(line, ";") \/ StartsWith(line, "#") THEN st
        ELSE IF StartsWith(line, "[") /\ EndsWith(line, "]")
          THEN LET current_table == Strip(Inner(line))
               IN  IF current_table # <<>>
                     THEN [ordered |-> Append(st.ordered, current_table),
                           dict    |-> Put(st.dict, current_table, <<>>),
                           has     |-> TRUE,
                           cur     |-> current_table]
                     ELSE [st EXCEPT !.has = TRUE, !.cur = current_table]
        ELSE IF st.has /\ st.cur # <<>>
          THEN [st EXCEPT !.dict = Put(@, st.cur, Append(@[st.cur], line))]
        ELSE st

ExtractorLine(st, l) ==
    LET line == Strip(l)
    IN  IF line = <<>> \/ StartsWith(line, ";") \/ StartsWith(line, "#") THEN st
        ELSE IF StartsWith(line, "[") /\ EndsWith(line, "]")
          THEN LET current_table == Strip(Inner(line))
               IN  IF current_table # <<>> /\ current_table \notin DOMAIN st.dict
                     THEN [ordered |-> Append(st.ordered, current_table),
                           dict    |-> Put(st.dict, current_table, <<>>),
                           has     |-> TRUE,
                           cur     |-> current_table]
                     ELSE [st EXCEPT !.has = TRUE, !.cur = current_table]
        ELSE IF st.has /\ st.cur # <<>>
          THEN [st EXCEPT !.dict = Put(@, st.cur, Append(@[st.cur], line))]
        ELSE st

RECURSIVE ExtractorLoop(_, _, _)
ExtractorLoop(st, lines, k) ==
    IF k > Len(lines) THEN st
    ELSE ExtractorLoop(ExtractorLine(st, lines[k]), lines, k + 1)

load_extractor_data(f) ==
    IF ~f.exists THEN <<<<>>, EmptyDict>>
    ELSE LET st == ExtractorLoop([ordered |-> <<>>, dict |-> EmptyDict, has |-> FALSE,
                                  cur |-> <<>>], f.lines, 1)
         IN  <<st.ordered, st.dict>>

\* load_dfe_params_data: the non-blank, non-comment lines, stripped
RECURSIVE ParamsLoop(_, _, _)
ParamsLoop(tables, lines, k) ==
    IF k > Len(lines) THEN tables
    ELSE LET line == Strip(lines[k])
         IN  ParamsLoop(IF line # <<>> /\ ~StartsWith(line, ";") /\ ~StartsWith(line, "#")
                          THEN Append(tables, line) ELSE tables,
                        lines, k + 1)

load_dfe_params_data(f) == IF ~f.exists THEN <<>> ELSE ParamsLoop(<<>>, f.lines, 1)

\* the loop body of load_dfe_map_data
MapLine(st, l) ==
    LET line == Strip(l)
    IN  IF line = <<>> \/ StartsWith(line, ";") \/ StartsWith(line, "#") THEN st
        ELSE IF StartsWith(line, "[") /\ EndsWith(line, "]")
          THEN LET current_table == Strip(Inner(line))
               IN  IF current_table # <<>> /\ current_table \notin DOMAIN st.dict
                     THEN [ordered |-> Append(st.ordered, current_table),
                           dict    |-> Put(st.dict, current_table, <<>>),
                           has     |-> TRUE,
                           cur     |-> current_table]
                     ELSE [st EXCEPT !.has = TRUE, !.cur = current_table]
        ELSE IF st.has /\ st.cur # <<>>
          THEN [st EXCEPT !.dict = Put(@, st.cur, Append(@[st.cur], line))]
        ELSE st

RECURSIVE MapLoop(_, _, _)
MapLoop(st, lines, k) ==
    IF k > Len(lines) THEN st ELSE MapLoop(MapLine(st, lines[k]), lines, k + 1)

load_dfe_map_data(f) ==
    IF ~f.exists THEN <<<<>>, EmptyDict>>
    ELSE LET st == MapLoop([ordered |-> <<>>, dict |-> EmptyDict, has |-> FALSE,
                            cur |-> <<>>], f.lines, 1)
         IN  <<st.ordered, st.dict>>

\* run() and main() are not running
RunIdle ==
    /\ config = Cfg("other", FALSE, "None", <<>>, <<>>, NoExtractors)
    /\ pc = "idle" /\ driver = "none" /\ login = "pending" /\ processor = "none"
    /\ filler = "none" /\ branch = "none" /\ ret = NoRet /\ results = EmptyDict
    /\ summary = [logged |-> FALSE, total |-> 0, success |-> 0, failed |-> 0]
    /\ exc = "none" /\ log = <<>> /\ i = 1 /\ pres = EmptyDict /\ valid = <<>>
    /\ available_fields_on_page = NoPage

InitLoadSpec ==
    /\ file \in Files
    /\ called = "none"
    /\ out = <<>>
    /\ RunIdle
    /\ InitMain

Call(name, value) ==
    /\ called = "none"
    /\ called' = name
    /\ out' = value
    /\ UNCHANGED <<file, runVars, mainVars>>

LoadBatchTables   == Call("load_batch_tables", load_batch_tables(file))
LoadExtractorData == Call("load_extractor_data", load_extractor_data(file))
LoadDfeParamsData == Call("load_dfe_params_data", load_dfe_params_data(file))
LoadDfeMapData    == Call("load_dfe_map_data", load_dfe_map_data(file))

NextLoad == LoadBatchTables \/ LoadExtractorData \/ LoadDfeParamsData \/ LoadDfeMapData

LoadSpec == InitLoadSpec /\ [][NextLoad]_vars

-----------------------------------------------------------------------------
(* Properties of the loaders, stated on the file's sections *)

\* the stripped lines of f that are neither blank nor start with one of the comment marks
Significant(f, marks) ==
    LET stripped == [k \in 1..Len(f.lines) |-> Strip(f.lines[k])]
    IN  SelectSeq(stripped, LAMBDA s : s # <<>> /\ s[1] \notin marks)

IsHeader(s)   == s[1] = "[" /\ s[Len(s)] = "]"
HeaderName(s) == Strip(SubSeq(s, 2, Len(s) - 1))
Headers(S)    == {k \in 1..Len(S) : IsHeader(S[k])}

\* the lines between header k and the next header (or the end of the file)
SectionBody(S, k) ==
    LET later == {h \in Headers(S) : h > k}
        last  == IF later = {} THEN Len(S)
                 ELSE (CHOOSE h \in later : \A g \in later : h <= g) - 1
    IN  SubSeq(S, k + 1, last)

\* the members of a set of line numbers, in increasing order
Ascending(K) ==
    [n \in 1..Cardinality(K) |-> CHOOSE k \in K : Cardinality({j \in K : j <= k}) = n]

\* the (command, tables) pairs of the sections with a name and at least one table line
ExpectedJobs(f) ==
    LET S    == Significant(f, {";"})
        keep == {k \in Headers(S) : HeaderName(S[k]) # <<>> /\ SectionBody(S, k) # <<>>}
        ks   == Ascending(keep)
    IN  [n \in 1..Len(ks) |-> <<HeaderName(S[ks[n]]), SectionBody(S, ks[n])>>]

\* C9: load_batch_tables returns, in file order, one (command, tables) pair for every
\* named header followed by at least one table line, the tables in file order; headers
\* without table lines or without a name give no pair; blank lines, ';' lines and
\* table lines before the first header are skipped. A missing file gives [].
C9_BatchSectionsInFileOrder ==
    called = "load_batch_tables" =>
        /\ out = (IF file.exists THEN ExpectedJobs(file) ELSE <<>>)
        /\ \A n \in DOMAIN out : out[n][1] # <<>> /\ out[n][2] # <<>>

C9_Witness ==
    /\ called = "load_batch_tables"
    /\ file.lines = << <<"[", "B", "]">>, <<"x">>, <<"[", "A", "]">>, <<" ", "y", " ">> >>
    /\ out = << << <<"B">>, << <<"x">> >> >>, << <<"A">>, << <<"y">> >> >> >>

\* the lines of all sections named name, from line k on, in file order
RECURSIVE FieldsOf(_, _, _)
FieldsOf(S, name, k) ==
    IF k > Len(S) THEN <<>>
    ELSE (IF IsHeader(S[k]) /\ HeaderName(S[k]) = name THEN SectionBody(S, k) ELSE <<>>)
         \o FieldsOf(S, name, k + 1)

SectionNames(S) == {HeaderName(S[k]) : k \in Headers(S)} \ {<<>>}

FirstHeader(S, name) ==
    CHOOSE k \in Headers(S) :
        /\ HeaderName(S[k]) = name
        /\ \A h \in Headers(S) : HeaderName(S[h]) = name => k <= h

\* what the claim says of a result (ordered_tables, extractors) for file f
SectionsWellFormed(f, result) ==
    LET S              == Significant(f, {";", "#"})
        ordered_tables == result[1]
        extractors     == result[2]
    IN  /\ \A a, b \in DOMAIN ordered_tables : a # b => ordered_tables[a] # ordered_tables[b]
        /\ {ordered_tables[n] : n \in DOMAIN ordered_tables} = DOMAIN extractors
        /\ DOMAIN extractors = (IF f.exists THEN SectionNames(S) ELSE {})
        /\ f.exists =>
             /\ \A a, b \in DOMAIN ordered_tables :
                   a < b => FirstHeader(S, ordered_tables[a]) < FirstHeader(S, ordered_tables[b])
             /\ \A name \in DOMAIN extractors : extractors[name] = FieldsOf(S, name, 1)

\* C10: load_extractor_data and load_dfe_map_data return (ordered_tables, extractors)
\* where ordered_tables has no duplicates, lists the non-empty section names by first
\* occurrence and is the key set of extractors; a repeated header appends to the
\* table's list; lines before any header or under an empty header are dropped.
C10_TablesAreExtractorKeys ==
    /\ called \in {"load_extractor_data", "load_dfe_map_data"} =>
            SectionsWellFormed(file, out)
    /\ called = "load_dfe_map_data" => out = load_extractor_data(file)

C10_Witness ==
    /\ called = "load_extractor_data"
    /\ file.lines = << <<"[", "A", "]">>, <<"x">>,
                       <<" ", "[", " ", "A", " ", "]", " ">>, <<" ", "y", " ">> >>
    /\ out[1] = << <<"A">> >>
    /\ out[2][<<"A">>] = << <<"x">>, <<"y">> >>

-----------------------------------------------------------------------------
(* main() *)

\* mode_map.get(mode_choice); "none" is None
mode_map(choice) ==
    CASE choice = "1" -> "batch"
      [] choice = "2" -> "report"
      [] choice = "3" -> "parameter"
      [] choice = "4" -> "mapping"
      [] choice = "5" -> "pipeline"
      [] OTHER -> "none"

\* batch_version_map.get(version_choice); "none" is None
batch_version_map(choice) ==
    CASE choice = "1" -> "sbii"
      [] choice = "2" -> "bji"
      [] choice = "3" -> "kalsel"
      [] choice = "4" -> "jamkrindo"
      [] choice = "5" -> "jambi"
      [] OTHER -> "none"

default_password_placeholder == "MASUKKAN_PASSWORD_DISINI"

\* what the operator may type at a numbered menu
MenuAnswers == {"1", "2", "3", "4", "5", "6", ""}

\* the data files file_path may point to
DataFiles ==
    { MissingFile,
      [exists |-> TRUE, lines |-> <<>>],
      [exists |-> TRUE, lines |-> << <<";", "x">>, <<" ">> >>],
      [exists |-> TRUE, lines |-> << <<"x">> >>],
      [exists |-> TRUE, lines |-> << <<"[", " ", "]">>, <<"x">> >>],
      [exists |-> TRUE, lines |-> << <<"[", "A", "]">> >>],
      [exists |-> TRUE, lines |-> << <<"[", "A", "]">>, <<"x">> >>] }

\* main() returns (or dies) without starting the application
Exit(why) ==
    /\ m_exit' = why
    /\ m_pc' = "exit"

\* mode_choice = input(...); mode = mode_map.get(mode_choice)
ChooseMode ==
    /\ m_pc = "mode_choice"
    /\ \E mode_choice \in MenuAnswers :
         LET mode == mode_map(mode_choice)
         IN  IF mode = "none"
               THEN /\ Exit("invalid_mode")
                    /\ UNCHANGED m_mode
               ELSE /\ m_mode' = mode
                    /\ m_pc' = "browser"
                    /\ UNCHANGED m_exit
    /\ UNCHANGED <<m_browser, m_version, m_exists, m_config, m_started>>
    /\ UNCHANGED <<runVars, loadVars>>

\* browser = "firefox" if input(...) == "2" else "chrome"
ChooseBrowser ==
    /\ m_pc = "browser"
    /\ \E answer \in {"1", "2", ""} :
         m_browser' = IF answer = "2" THEN "firefox" ELSE "chrome"
    /\ m_pc' = IF m_mode = "pipeline" THEN "pl_version" ELSE "config_file"
    /\ UNCHANGED <<m_mode, m_version, m_exists, m_config, m_started, m_exit>>
    /\ UNCHANGED <<runVars, loadVars>>

\* the version prompt of the pipeline branch
PipelineVersion ==
    /\ m_pc = "pl_version"
    /\ \E version_choice \in MenuAnswers :
         LET batch_version == batch_version_map(version_choice)
         IN  IF batch_version = "none"
               THEN /\ Exit("invalid_version")
                    /\ UNCHANGED m_version
               ELSE /\ m_version' = batch_version
                    /\ m_pc' = "pl_load"
                    /\ UNCHANGED m_exit
    /\ UNCHANGED <<m_mode, m_browser, m_exists, m_config, m_started>>
    /\ UNCHANGED <<runVars, loadVars>>

\* the try block of the pipeline branch: the configs are read, then the batch jobs are
\* loaded through DataManager.load_batch_commands_and_tables; any exception returns
PipelineLoad ==
    /\ m_pc = "pl_load"
    /\ \E configs_ok \in BOOLEAN, password \in {default_password_placeholder, "secret"},
          f \in DataFiles, answer \in {"yes", "no"} :
         IF ~configs_ok
           THEN /\ Exit("config_error")
                /\ UNCHANGED m_config
         ELSE IF "load_batch_commands_and_tables" \notin DataManagerMethods
           THEN /\ Exit("AttributeError")
                /\ UNCHANGED m_config
         ELSE /\ m_config' = [NoConfig EXCEPT !.loaded = TRUE, !.mode = "pipeline",
                                              !.password = password, !.datafile = f,
                                              !.commit_enabled = (answer = "yes")]
              /\ m_pc' = "final"
              /\ UNCHANGED m_exit
    /\ UNCHANGED <<m_mode, m_browser, m_version, m_exists, m_started>>
    /\ UNCHANGED <<runVars, loadVars>>

\* os.path.exists(config_file), the default file written when it is missing, and
\* AppConfig.from_config_file (which raises on a file without the needed sections)
LoadConfig ==
    /\ m_pc = "config_file"
    /\ \E exists \in BOOLEAN, complete \in BOOLEAN,
          password \in {default_password_placeholder, "secret", ""}, f \in DataFiles :
         /\ m_exists' = exists
         /\ IF ~exists
              THEN /\ Exit("config_created")
                   /\ UNCHANGED m_config
            ELSE IF ~complete
              THEN /\ Exit("config_error")
                   /\ UNCHANGED m_config
            ELSE /\ m_config' = [NoConfig EXCEPT !.loaded = TRUE, !.mode = m_mode,
                                                 !.password = password, !.datafile = f]
                 /\ m_pc' = IF m_mode = "batch" THEN "batch_version" ELSE "commit_choice"
                 /\ UNCHANGED m_exit
    /\ UNCHANGED <<m_mode, m_browser, m_version, m_started>>
    /\ UNCHANGED <<runVars, loadVars>>

\* the version prompt of batch mode
BatchVersion ==
    /\ m_pc = "batch_version"
    /\ \E version_choice \in MenuAnswers :
         LET batch_version == batch_version_map(version_choice)
         IN  IF batch_version = "none"
               THEN /\ Exit("invalid_version")
                    /\ UNCHANGED m_version
               ELSE /\ m_version' = batch_version
                    /\ m_pc' = "commit_choice"
                    /\ UNCHANGED m_exit
    /\ UNCHANGED <<m_mode, m_browser, m_exists, m_config, m_started>>
    /\ UNCHANGED <<runVars, loadVars>>

\* commit_choice = input(...).strip().lower()
CommitChoice ==
    /\ m_pc = "commit_choice"
    /\ \E commit_choice \in {"yes", "no", ""} :
         m_config' = [m_config EXCEPT !.commit_enabled = (commit_choice = "yes")]
    /\ m_pc' = "load_data"
    /\ UNCHANGED <<m_mode, m_browser, m_version, m_exists, m_started, m_exit>>
    /\ UNCHANGED <<runVars, loadVars>>

\* the work list is loaded; an empty one ends main(). Batch mode calls
\* DataManager.load_batch_commands_and_tables outside any try block
LoadData ==
    /\ m_pc = "load_data"
    /\ IF m_mode = "batch"
         THEN IF "load_batch_commands_and_tables" \notin DataManagerMethods
                THEN /\ Exit("AttributeError")
                     /\ UNCHANGED m_config
                ELSE LET jobs == load_batch_tables(m_config.datafile)
                     IN  /\ m_config' = [m_config EXCEPT !.batch_jobs = jobs]
                         /\ IF jobs = <<>>
                              THEN Exit("no_batch_jobs")
                              ELSE m_pc' = "final" /\ UNCHANGED m_exit
         ELSE LET loaded == IF m_mode \in {"report", "mapping"}
                              THEN load_extractor_data(m_config.datafile)
                              ELSE <<load_dfe_params_data(m_config.datafile), EmptyDict>>
              IN  /\ m_config' = [m_config EXCEPT !.tables = loaded[1],
                                                  !.extractors = loaded[2]]
                  /\ IF loaded[1] = <<>>
                       THEN Exit("no_data")
                       ELSE m_pc' = "final" /\ UNCHANGED m_exit
    /\ UNCHANGED <<m_mode, m_browser, m_version, m_exists, m_started>>
    /\ UNCHANGED <<runVars, loadVars>>

StartWithoutPasswordCheck ==
    /\ m_pc = "final"
    /\ m_started' = TRUE
    /\ m_pc' = "running"
    /\ UNCHANGED <<m_mode, m_browser, m_version, m_exists, m_config, m_exit>>
    /\ UNCHANGED <<runVars, loadVars>>

\* the password check, then AutomatApp(config).run()
Start ==
    /\ m_pc = "final"
    /\ IF m_config.password = default_password_placeholder
         THEN /\ Exit("password_not_configured")
              /\ UNCHANGED m_started
         ELSE /\ m_started' = TRUE
              /\ m_pc' = "running"
              /\ UNCHANGED m_exit
    /\ UNCHANGED <<m_mode, m_browser, m_version, m_exists, m_config>>
    /\ UNCHANGED <<runVars, loadVars>>

InitMainSpec ==
    /\ InitMainAt("mode_choice")
    /\ RunIdle
    /\ InitLoad

NextMain ==
    \/ ChooseMode \/ ChooseBrowser \/ PipelineVersion \/ PipelineLoad \/ LoadConfig
    \/ BatchVersion \/ CommitChoice \/ LoadData \/ Start

MainSpec == InitMainSpec /\ [][NextMain]_vars

\* the work list main() loaded for the mode
WorkList == IF m_mode = "batch" THEN m_config.batch_jobs ELSE m_config.tables

\* C8: main() starts AutomatApp only when the mode choice is valid, the batch version
\* (where asked) is valid, the configuration was loaded from an existing file, the
\* loaded work list is non-empty and the password is not the placeholder.
C8_StartOnlyWhenGuardsPass ==
    m_started =>
        /\ m_mode \in MenuModes
        /\ m_mode \in {"batch", "pipeline"} => m_version \in BatchVersions
        /\ m_mode # "pipeline" => m_exists
        /\ m_config.loaded
        /\ WorkList # <<>>
        /\ m_config.password # default_password_placeholder

C8_Witness ==
    /\ m_started
    /\ m_mode = "report"
    /\ m_config.commit_enabled
    /\ Len(m_config.tables) = 1

====
